---- MODULE Spec2Model ----
(***************************************************************************)
(* Model of bot/utils/time.py: _stringify_time_unit, humanize_delta and    *)
(* wait_until.  Strings are TLA+ strings, built with the same operations   *)
(* the Python code uses (slicing, formatting, joining).  Time is counted   *)
(* in ticks of 1/TicksPerSecond second.                                    *)
(***************************************************************************)
EXTENDS Integers, Sequences, FiniteSets, TLC

VARIABLES
    value, unit, stringified, spc,
    delta, precision, max_units, time_strings, unit_count, humanized, pc,
    now, time, delay_seconds, slept_for, called_at, sleeps, wpc

svars == <<value, unit, stringified, spc>>
hvars == <<delta, precision, max_units, time_strings, unit_count, humanized, pc>>
wvars == <<now, time, delay_seconds, slept_for, called_at, sleeps, wpc>>
vars == <<svars, hvars, wvars>>

-----------------------------------------------------------------------------
(* Bounds of the explored inputs. *)

\* components of a delta range over -1..MaxComponent
MaxComponent == 2
\* max_units ranges over 0..MaxUnitsArg
MaxUnitsArg == 6
\* values given to _stringify_time_unit range over -MaxValue..MaxValue
MaxValue == 24
\* clock resolution: ticks per second
TicksPerSecond == 2
\* the target time and the clock at the call range over 0..MaxTime ticks
MaxTime == 8
\* the event loop resumes a sleeper 0..MaxLate ticks after its deadline; the
\* code sets no limit, this only bounds the explored clock values
MaxLate == 6

-----------------------------------------------------------------------------
(* Strings *)

\* the unit names, in the order of the `units` tuple of humanize_delta
UnitNames == <<"years", "months", "days", "hours", "minutes", "seconds">>

UnitSet == {UnitNames[i] : i \in 1..Len(UnitNames)}

UnitIndex(u) == CHOOSE i \in 1..Len(UnitNames) : UnitNames[i] = u

\* Python's s[:-1]
DropLast(s) == IF Len(s) = 0 THEN s ELSE SubSeq(s, 1, Len(s) - 1)

\* Python's f"{value}" for an int
Str(v) == ToString(v)

stringify_time_unit_keep_plural(v, u) ==
    IF v = 1 THEN Str(v) \o " " \o u
    ELSE IF v = 0 THEN "less than a " \o DropLast(u)
    ELSE Str(v) \o " " \o u

\* _stringify_time_unit(value, unit)
stringify_time_unit(v, u) ==
    IF v = 1 THEN Str(v) \o " " \o DropLast(u)
    ELSE IF v = 0 THEN "less than a " \o DropLast(u)
    ELSE Str(v) \o " " \o u

\* Python's sep.join(list)
RECURSIVE Join(_, _)
Join(sep, ts) ==
    IF Len(ts) = 0 THEN ""
    ELSE IF Len(ts) = 1 THEN ts[1]
    ELSE ts[1] \o sep \o Join(sep, Tail(ts))

-----------------------------------------------------------------------------
(* humanize_delta *)

\* the `units` tuple: (name, component) pairs in descending magnitude
units(d) == [i \in 1..Len(UnitNames) |-> <<UnitNames[i], d[UnitNames[i]]>>]

TruthyAlways(v) == TRUE

TruthyPositive(v) == v > 0

\* `if value:` on an int
Truthy(v) == v # 0

ShouldBreakNoPrecision(u, p, cnt, m) == cnt >= m

ShouldBreakLate(u, p, cnt, m) == u = p \/ cnt > m

\* `if unit == precision or unit_count >= max_units: break`
ShouldBreak(u, p, cnt, m) == u = p \/ cnt >= m

\* the for loop: returns <<time_strings, unit_count>> as they are after it
RECURSIVE Loop(_, _, _, _, _, _)
Loop(us, p, m, i, ts, cnt) ==
    IF i > Len(us) THEN <<ts, cnt>>
    ELSE LET u == us[i][1]
             v == us[i][2]
             ts2 == IF Truthy(v) THEN Append(ts, stringify_time_unit(v, u)) ELSE ts
             cnt2 == IF Truthy(v) THEN cnt + 1 ELSE cnt
         IN  IF ShouldBreak(u, p, cnt2, m) THEN <<ts2, cnt2>>
             ELSE Loop(us, p, m, i + 1, ts2, cnt2)

AndMergeFirstTwo(ts) ==
    IF Len(ts) > 1
    THEN <<ts[1] \o " and " \o ts[2]>> \o SubSeq(ts, 3, Len(ts))
    ELSE ts

\* time_strings[-1] = f"{time_strings[-2]} and {time_strings[-1]}"; del time_strings[-2]
AndMerge(ts) ==
    IF Len(ts) > 1
    THEN SubSeq(ts, 1, Len(ts) - 2) \o <<ts[Len(ts) - 1] \o " and " \o ts[Len(ts)]>>
    ELSE ts

FinishSecondsFallback(ts, p) ==
    LET merged == AndMerge(ts)
    IN  IF Len(merged) = 0 THEN stringify_time_unit(0, "seconds")
        ELSE Join(", ", merged)

\* the part of humanize_delta after the loop: merge, fallback, join
Finish(ts, p) ==
    LET merged == AndMerge(ts)
    IN  IF Len(merged) = 0 THEN stringify_time_unit(0, p)
        ELSE Join(", ", merged)

humanize_delta(d, p, m) == Finish(Loop(units(d), p, m, 1, <<>>, 0)[1], p)

-----------------------------------------------------------------------------
(* wait_until *)

ShouldSleepAtOne(d) == d >= TicksPerSecond

ShouldSleepTwo(d) == d > 2 * TicksPerSecond

\* `if delay_seconds > 1.0`
ShouldSleep(d) == d > TicksPerSecond

-----------------------------------------------------------------------------
(* Inputs *)

Zero == [u \in UnitSet |-> 0]

\* the delta of the documented example
ExampleDelta == [Zero EXCEPT !["days"] = 1, !["hours"] = 2, !["seconds"] = 5]

Deltas == [UnitSet -> (0 - 1)..MaxComponent] \cup {ExampleDelta}

SIdle ==
    /\ value = 0 /\ unit = "seconds" /\ stringified = "" /\ spc = "idle"

HIdle ==
    /\ delta = Zero /\ precision = "seconds" /\ max_units = 6
    /\ time_strings = <<>> /\ unit_count = 0 /\ humanized = "" /\ pc = "idle"

WIdle ==
    /\ now = 0 /\ time = 0 /\ delay_seconds = 0 /\ slept_for = 0
    /\ called_at = 0 /\ sleeps = 0 /\ wpc = "idle"

-----------------------------------------------------------------------------
(* Specification of humanize_delta *)

Init ==
    /\ delta \in Deltas
    /\ precision \in UnitSet
    /\ max_units \in 0..MaxUnitsArg
    /\ time_strings = <<>> /\ unit_count = 0 /\ humanized = "" /\ pc = "call"
    /\ SIdle /\ WIdle

\* one call of humanize_delta(delta, precision, max_units); time_strings and
\* unit_count are kept as they are when the loop ends
HumanizeDelta ==
    /\ pc = "call"
    /\ LET r == Loop(units(delta), precision, max_units, 1, <<>>, 0)
       IN  /\ time_strings' = r[1]
           /\ unit_count' = r[2]
           /\ humanized' = humanize_delta(delta, precision, max_units)
    /\ pc' = "done"
    /\ UNCHANGED <<delta, precision, max_units, svars, wvars>>

Next == HumanizeDelta

Spec == Init /\ [][Next]_vars

-----------------------------------------------------------------------------
(* Specification of _stringify_time_unit *)

InitStringify ==
    /\ value \in (0 - MaxValue)..MaxValue
    /\ unit \in UnitSet
    /\ stringified = "" /\ spc = "call"
    /\ HIdle /\ WIdle

StringifyTimeUnit ==
    /\ spc = "call"
    /\ stringified' = stringify_time_unit(value, unit)
    /\ spc' = "done"
    /\ UNCHANGED <<value, unit, hvars, wvars>>

NextStringify == StringifyTimeUnit

SpecStringify == InitStringify /\ [][NextStringify]_vars

-----------------------------------------------------------------------------
(* Specification of wait_until *)

InitWait ==
    /\ now \in 0..MaxTime
    /\ time \in 0..MaxTime
    /\ delay_seconds = 0 /\ slept_for = 0 /\ called_at = 0 /\ sleeps = 0
    /\ wpc = "call"
    /\ SIdle /\ HIdle

\* wait_until up to its suspension point: read the clock once, compare the
\* delay with 1.0 second, and either sleep or return
WaitUntil ==
    /\ wpc = "call"
    /\ delay_seconds' = time - now
    /\ called_at' = now
    /\ IF ShouldSleep(time - now)
       THEN /\ wpc' = "sleeping"
            /\ slept_for' = time - now
            /\ sleeps' = sleeps + 1
       ELSE /\ wpc' = "done"
            /\ UNCHANGED <<slept_for, sleeps>>
    /\ UNCHANGED <<now, time, svars, hvars>>

\* the clock advances while the task is suspended; asyncio.sleep sets no
\* limit on how late the task is resumed, MaxLate bounds the exploration
Tick ==
    /\ wpc = "sleeping"
    /\ now < called_at + slept_for + MaxLate
    /\ now' = now + 1
    /\ UNCHANGED <<time, delay_seconds, slept_for, called_at, sleeps, wpc, svars, hvars>>

\* asyncio.sleep(d) returns once at least d seconds have passed; wait_until
\* then returns
Wake ==
    /\ wpc = "sleeping"
    /\ now >= called_at + slept_for
    /\ wpc' = "done"
    /\ UNCHANGED <<now, time, delay_seconds, slept_for, called_at, sleeps, svars, hvars>>

NextWait == WaitUntil \/ Tick \/ Wake

SpecWait == InitWait /\ [][NextWait]_vars

\* the caller runs, the clock advances and the event loop resumes a sleeper
\* whose timer has expired
FairSpecWait ==
    SpecWait /\ WF_vars(WaitUntil) /\ WF_vars(Tick) /\ WF_vars(Wake)

-----------------------------------------------------------------------------
(* Properties.  They read the returned string itself: which unit words it  *)
(* contains, where, and how often.                                         *)

\* the singular unit words, written out
SingularOf == [u \in UnitSet |->
    CASE u = "years" -> "year" [] u = "months" -> "month" [] u = "days" -> "day"
      [] u = "hours" -> "hour" [] u = "minutes" -> "minute" [] u = "seconds" -> "second"]

\* the positions at which sub occurs in s
Occurrences(s, sub) ==
    {i \in 1..(Len(s) - Len(sub) + 1) : SubSeq(s, i, i + Len(sub) - 1) = sub}

Contains(s, sub) == Occurrences(s, sub) # {}

Count(s, sub) == Cardinality(Occurrences(s, sub))

FirstPos(s, sub) == CHOOSE i \in Occurrences(s, sub) : \A j \in Occurrences(s, sub) : i <= j

\* the unit u is rendered in the string s
Rendered(s, u) == Contains(s, SingularOf[u])

NonNegative(d) == \A u \in UnitSet : d[u] >= 0

AllZero(d) == \A u \in UnitSet : d[u] = 0

\* every component at or coarser than p is zero
ZeroDownTo(d, p) == \A u \in UnitSet : UnitIndex(u) <= UnitIndex(p) => d[u] = 0

NonZeroCount(d) == Cardinality({u \in UnitSet : d[u] # 0})

IsFallback(s) == Len(s) >= 12 /\ SubSeq(s, 1, 12) = "less than a "

\* the first k strings of ts separated by ", "
RECURSIVE CommaList(_, _)
CommaList(ts, k) ==
    IF k = 0 THEN "" ELSE IF k = 1 THEN ts[1]
    ELSE CommaList(ts, k - 1) \o ", " \o ts[k]

\* C1: with non-negative components and max_units >= 1, every unit rendered
\* has a non-zero component, the rendered units appear once each and in
\* descending magnitude order, a zero component is never rendered as
\* "less than a <unit>" when some unit is rendered, and the documented
\* example gives "1 day, 2 hours and 5 seconds".
C1_NonZeroDescending ==
    (pc = "done" /\ NonNegative(delta) /\ max_units >= 1) =>
        /\ unit_count > 0 =>
              /\ \A u \in UnitSet : Rendered(humanized, u) => delta[u] # 0
              /\ ~Contains(humanized, "less than a")
        /\ \A u \in UnitSet : Count(humanized, SingularOf[u]) <= 1
        /\ \A u1, u2 \in UnitSet :
              (/\ UnitIndex(u1) < UnitIndex(u2)
               /\ Rendered(humanized, u1) /\ Rendered(humanized, u2))
              => FirstPos(humanized, SingularOf[u1]) < FirstPos(humanized, SingularOf[u2])
        /\ (delta = ExampleDelta /\ precision = "seconds" /\ max_units = 6)
              => humanized = "1 day, 2 hours and 5 seconds"

C1_Witness ==
    /\ pc = "done" /\ delta = ExampleDelta /\ precision = "seconds" /\ max_units = 6
    /\ humanized = "1 day, 2 hours and 5 seconds"

\* C2: the returned string never renders a unit finer than precision.
C2_NothingFinerThanPrecision ==
    pc = "done" =>
        \A u \in UnitSet : Rendered(humanized, u) => UnitIndex(u) <= UnitIndex(precision)

C2_Witness ==
    /\ pc = "done" /\ precision = "hours" /\ max_units = 6
    /\ delta["days"] = 1 /\ delta["minutes"] = 2 /\ delta["seconds"] = 2
    /\ Rendered(humanized, "days") /\ ~Rendered(humanized, "minutes")

\* C3: the number of unit strings emitted is at most max_units, for every
\* max_units >= 0.
C3_AtMostMaxUnits ==
    pc = "done" => Len(time_strings) <= max_units

\* C4: n emitted strings s1..sn are returned as s1, ..., s(n-1) separated
\* by ", ", then " and ", then sn: one " and " and n-2 ", " for n >= 2;
\* s1 alone, with neither, for n = 1.
C4_JoinWithAnd ==
    pc = "done" =>
        LET n == Len(time_strings) IN
        /\ n >= 2 =>
              /\ humanized = CommaList(time_strings, n - 1) \o " and " \o time_strings[n]
              /\ Count(humanized, " and ") = 1
              /\ Count(humanized, ", ") = n - 2
        /\ n = 1 =>
              /\ humanized = time_strings[1]
              /\ ~Contains(humanized, " and ") /\ ~Contains(humanized, ", ")

C4_Witness ==
    /\ pc = "done" /\ Len(time_strings) = 4
    /\ Count(humanized, ", ") = 2 /\ Count(humanized, " and ") = 1

\* C5: with non-negative components and max_units >= 1, the result is
\* "less than a <precision singular>" exactly when nothing was emitted, and
\* nothing is emitted exactly when every component at or coarser than
\* precision is zero; an all-zero delta with precision minutes gives
\* "less than a minute".
C5_FallbackIffNothingEmitted ==
    (pc = "done" /\ NonNegative(delta) /\ max_units >= 1) =>
        /\ (humanized = "less than a " \o SingularOf[precision]) <=> (Len(time_strings) = 0)
        /\ (Len(time_strings) = 0) <=> ZeroDownTo(delta, precision)
        /\ (AllZero(delta) /\ precision = "minutes") => humanized = "less than a minute"

C5_Witness ==
    /\ pc = "done" /\ max_units >= 1 /\ precision = "minutes"
    /\ ZeroDownTo(delta, precision) /\ delta["seconds"] = 2
    /\ humanized = "less than a minute"

\* C6: _stringify_time_unit gives "1 <singular>" for 1, "less than a
\* <singular>" for 0 and "<value> <plural>" for every other value.
C6_Stringify ==
    spc = "done" =>
        stringified =
            IF value = 1 THEN "1 " \o SingularOf[unit]
            ELSE IF value = 0 THEN "less than a " \o SingularOf[unit]
            ELSE ToString(value) \o " " \o unit

C6_Witness ==
    \/ spc = "done" /\ value = 1 /\ unit = "seconds" /\ stringified = "1 second"
    \/ spc = "done" /\ value = 24 /\ unit = "hours" /\ stringified = "24 hours"
    \/ spc = "done" /\ value = 0 /\ unit = "minutes" /\ stringified = "less than a minute"

\* C8 (as stated): with max_units = 1 and two or more non-zero components,
\* exactly one unit string is emitted, for every precision, and the result
\* has neither " and " nor ", ".
C8_ExactlyOne ==
    (pc = "done" /\ max_units = 1 /\ NonZeroCount(delta) >= 2) =>
        /\ Len(time_strings) = 1
        /\ ~Contains(humanized, " and ") /\ ~Contains(humanized, ", ")

\* C8 (amended): with max_units = 1 and two or more non-zero components, at
\* most one unit string is emitted: exactly one when some component at or
\* coarser than precision is non-zero, none otherwise; the result has
\* neither " and " nor ", ".
C8_AtMostOne ==
    (pc = "done" /\ max_units = 1 /\ NonZeroCount(delta) >= 2) =>
        /\ Len(time_strings) <= 1
        /\ (Len(time_strings) = 1) <=> ~ZeroDownTo(delta, precision)
        /\ ~Contains(humanized, " and ") /\ ~Contains(humanized, ", ")

C8_Witness ==
    /\ pc = "done" /\ max_units = 1 /\ precision = "seconds"
    /\ delta["days"] = 2 /\ delta["hours"] = 1 /\ delta["seconds"] = 2
    /\ time_strings = <<"2 days">> /\ humanized = "2 days"

\* C9 (as stated): with max_units >= 1, a "less than a <unit>" result is
\* returned only if all six components are zero.
C9_FallbackOnlyAllZero ==
    (pc = "done" /\ max_units >= 1 /\ IsFallback(humanized)) => AllZero(delta)

\* C9 (amended): with max_units >= 1, a "less than a <unit>" result is
\* returned only if every component at or coarser than precision is zero.
C9_FallbackOnlyZeroDownToPrecision ==
    (pc = "done" /\ max_units >= 1 /\ IsFallback(humanized)) => ZeroDownTo(delta, precision)

C9_Witness ==
    /\ pc = "done" /\ max_units >= 1 /\ IsFallback(humanized)
    /\ precision = "hours" /\ delta["minutes"] = 1 /\ ~AllZero(delta)

\* C7: the delay is the target minus the clock at the call; a delay above
\* 1.0 second suspends the caller once, for that delay; any other delay
\* (1.0 second exactly, or a target in the past) returns at once with no
\* suspension.
C7_SleepOnceIffAboveOneSecond ==
    wpc = "done" =>
        /\ delay_seconds = time - called_at
        /\ delay_seconds > TicksPerSecond =>
              sleeps = 1 /\ slept_for = delay_seconds
        /\ delay_seconds <= TicksPerSecond =>
              sleeps = 0 /\ now = called_at

C7_Witness ==
    wpc = "done" /\ delay_seconds > TicksPerSecond /\ sleeps = 1 /\ slept_for = time - called_at

\* C10: every call returns, after at most one suspension, and when it
\* returns the clock is no earlier than one second before the target.
C10_ReturnsNoEarlierThanOneSecondBefore ==
    /\ <>(wpc = "done")
    /\ [](sleeps <= 1)
    /\ [](wpc = "done" => now >= time - TicksPerSecond)

C10_Witness ==
    \/ wpc = "done" /\ sleeps = 1 /\ now > time
    \/ wpc = "done" /\ sleeps = 0 /\ called_at < time /\ now = time - TicksPerSecond

====
